---- MODULE Spec2Model ----
(***************************************************************************)
(* Model of the blog's index builder: lib/getPosts (getPosts), its caller  *)
(* pages/index (getStaticProps) and the slug derivation                    *)
(* f.name.replace(/.mdx$/, '').                                            *)
(*                                                                         *)
(* A filename is a sequence of one-character strings, so that the regular  *)
(* expression can be run over it character by character.                   *)
(***************************************************************************)
EXTENDS Integers, Sequences, FiniteSets

VARIABLES
    store,      \* the Content Store: src/pages/blog on disk
    pc,         \* where getStaticProps/getPosts stands
    dirFiles,   \* getPosts: the Dirent array readdirSync returned
    promises,   \* getPosts: one promise per mapped async callback
    all,        \* getPosts: the promise Promise.all returned
    outcome,    \* the promise getPosts returned
    props,      \* what getStaticProps returned
    results,    \* outcomes of the getPosts calls completed so far
    fname,      \* slug derivation alone: the filename given
    slugOut,    \* slug derivation alone: the slug derived
    slugPc,     \* slug derivation alone: "input" or "derived"
    theme,      \* Layout: the useState value
    pageMeta,   \* Layout: the meta prop of the last render
    rendered,   \* Layout: what the last render put in the document
    events      \* Layout: the events delivered to the component so far

vars == <<store, pc, dirFiles, promises, all, outcome, props, results,
          fname, slugOut, slugPc, theme, pageMeta, rendered, events>>

getPostsVars == <<store, pc, dirFiles, promises, all, outcome, props, results>>
slugVars == <<fname, slugOut, slugPc>>
layoutVars == <<theme, pageMeta, rendered, events>>

----------------------------------------------------------------------------
(* Bounds *)

\* longest filename the slug derivation is run on
MaxNameLen == 5
\* most entries in the content directory
MaxFiles == 2
\* number of getPosts invocations in one behaviour
MaxCalls == 2
\* number of events delivered to a mounted Layout
MaxEvents == 3

----------------------------------------------------------------------------
(* Strings *)

\* characters filenames are made of: an ordinary letter, the dot, the
\* letters of the extension, and a line terminator
Alphabet == {"a", ".", "m", "d", "x", "\n"}

\* ECMAScript LineTerminator (also U+2028 and U+2029, not in Alphabet)
LineTerminators == {"\n", "\r"}

Names(n) == UNION {[1..k -> Alphabet] : k \in 1..n}

----------------------------------------------------------------------------
(* f.name.replace(/.mdx$/, '') *)

AnyChar == [kind |-> "any", ch |-> ""]
Lit(c) == [kind |-> "lit", ch |-> c]

\* /mdx$/ : the pattern with its first atom lost
SlugPatternNoDot == <<Lit("m"), Lit("d"), Lit("x")>>

\* the atoms of /.mdx$/ : the dot is not escaped, so it is the wildcard
SlugPattern == <<AnyChar, Lit("m"), Lit("d"), Lit("x")>>

\* one pattern atom against one character; `.` (no s flag) matches any
\* character but a line terminator
AtomMatches(atom, c) ==
    IF atom.kind = "any" THEN c \notin LineTerminators ELSE c = atom.ch

\* the pattern matches s starting at index i and `$` (no m flag) holds after
\* it, i.e. the match ends at the end of the input
MatchAt(s, i) ==
    /\ i + Len(SlugPattern) - 1 = Len(s)
    /\ \A k \in 1..Len(SlugPattern) : AtomMatches(SlugPattern[k], s[i + k - 1])

\* RegExp exec without the g flag: the leftmost index at which the pattern
\* matches, 0 when there is none
RegExpExec(s) ==
    LET hits == {i \in 1..Len(s) : MatchAt(s, i)}
    IN  IF hits = {} THEN 0
        ELSE CHOOSE i \in hits : \A j \in hits : i <= j

\* String.prototype.replace(regexp, ''): the first match is cut out
Replace(s) ==
    LET i == RegExpExec(s)
    IN  IF i = 0 THEN s
        ELSE SubSeq(s, 1, i - 1) \o SubSeq(s, i + Len(SlugPattern), Len(s))

\* const slug = f.name.replace(/.mdx$/, '')
Slug(name) == Replace(name)

\* the recognized extension, as the spec and next.config's links use it
Ext == <<".", "m", "d", "x">>

EndsWith(s, suffix) ==
    /\ Len(s) >= Len(suffix)
    /\ SubSeq(s, Len(s) - Len(suffix) + 1, Len(s)) = suffix

----------------------------------------------------------------------------
(* The Content Store *)

\* filenames the content directory is populated from: two posts, a markdown
\* file, and a name whose last four characters are "amdx", another
\* character standing where the dot would
FileNames ==
    { <<"a", ".", "m", "d", "x">>,
      <<"d", ".", "m", "d", "x">>,
      <<"a", ".", "m", "d">>,
      <<"a", "a", "m", "d", "x">> }

\* what `export const meta` of a post holds, as opaque records
Metas == {"M1", "M2"}
\* the value of a binding the module does not export
Undefined == "undefined"

\* what importing a directory entry gives: the module does not load (no
\* loader, a syntax error, nothing to resolve), or it loads and exports
\* meta, or it loads and exports no meta
Modules ==
    {[loads |-> TRUE, meta |-> m] : m \in Metas \cup {Undefined}}
        \cup {[loads |-> FALSE, meta |-> Undefined]}

\* a directory entry on disk: a regular file or a subdirectory
DirEntries == [name : FileNames, type : {"file", "dir"}, module : Modules]

Range(s) == {s[i] : i \in DOMAIN s}

\* directory contents of at most n entries, in the order the filesystem
\* enumerates them; names are unique within a directory
Listings(n) ==
    {es \in UNION {[1..k -> DirEntries] : k \in 0..n} :
        \A i, j \in DOMAIN es : i # j => es[i].name # es[j].name}

Stores ==
    {[status |-> "ok", entries |-> es] : es \in Listings(MaxFiles)}
        \cup {[status |-> s, entries |-> <<>>] : s \in {"ENOENT", "EACCES"}}

----------------------------------------------------------------------------
(* Promises *)

NoError == [error |-> "none", file |-> <<>>]
\* a slot of Promise.all's value array not yet filled
Hole == [meta |-> "hole", slug |-> <<>>]

NoPromise == [state |-> "none", values |-> <<>>, reason |-> NoError]
NoOutcome == [status |-> "none", value |-> <<>>, reason |-> NoError]
NoProps == [status |-> "none", posts |-> <<>>]

\* readdirSync followed by a filter on the extension: other files are lost
ReaddirSyncMdxOnly(st) ==
    LET ds == [i \in DOMAIN st.entries |->
                 [name |-> st.entries[i].name, type |-> st.entries[i].type]]
        IsMdx(d) == EndsWith(d.name, Ext)
    IN  SelectSeq(ds, IsMdx)

\* fs.readdirSync(dir, {withFileTypes: true}): throws when the directory is
\* missing or unreadable, else every entry of the directory as a Dirent
\* (name and type), in enumeration order
ReaddirSync(st) == [i \in DOMAIN st.entries |->
                      [name |-> st.entries[i].name, type |-> st.entries[i].type]]

\* the callbacks all close over one binding of f, left at the last file
MapAsyncLastBinding(files) ==
    [i \in DOMAIN files |->
        [path |-> files[Len(files)].name, state |-> "pending",
         value |-> Hole, reason |-> NoError]]

\* dirFiles.map(async (f) => ...): each callback runs to its first await,
\* the import of `../pages/blog/${f.name}`, and returns a pending promise
MapAsync(files) == [i \in DOMAIN files |->
                      [path |-> files[i].name, state |-> "pending",
                       value |-> Hole, reason |-> NoError]]

\* a Promise.all that counts down only in its reactions, and so never
\* settles for an empty iterable
PromiseAllPendingOnEmpty(ps) ==
    [state |-> "pending", values |-> [i \in DOMAIN ps |-> Hole],
     reason |-> NoError]

\* Promise.all(iterable): fulfilled at once with [] for an empty iterable,
\* else pending with one unfilled slot per promise
PromiseAll(ps) ==
    IF Len(ps) = 0
    THEN [state |-> "fulfilled", values |-> <<>>, reason |-> NoError]
    ELSE [state |-> "pending", values |-> [i \in DOMAIN ps |-> Hole],
          reason |-> NoError]

\* import(`../pages/blog/${name}`): the module the store holds under name
Import(st, name) ==
    (CHOOSE e \in Range(st.entries) : e.name = name).module

\* the rest of the async callback once the import has settled
\*   const { meta } = await import(...); const slug = ...; return { meta, slug }
Callback(p, f, module) ==
    IF module.loads
    THEN [p EXCEPT !.state = "fulfilled",
                   !.value = [meta |-> module.meta, slug |-> Slug(f.name)]]
    ELSE [p EXCEPT !.state = "rejected",
                   !.reason = [error |-> "ModuleLoadError", file |-> p.path]]

IsValue(v) == v # Hole

\* a join that waits for every promise and keeps what was fulfilled
\* (Promise.allSettled with the rejections dropped)
AllReactSettled(a, i, p, ps) ==
    IF a.state # "pending" THEN a
    ELSE LET vs == IF p.state = "fulfilled"
                   THEN [a.values EXCEPT ![i] = p.value] ELSE a.values
         IN  IF \A k \in DOMAIN ps : ps[k].state # "pending"
             THEN [a EXCEPT !.values = SelectSeq(vs, IsValue),
                            !.state = "fulfilled"]
             ELSE [a EXCEPT !.values = vs]

\* a join that pushes each value as its promise fulfils: completion order
AllReactCompletionOrder(a, i, p, ps) ==
    IF a.state # "pending" THEN a
    ELSE IF p.state = "rejected"
    THEN [a EXCEPT !.state = "rejected", !.reason = p.reason]
    ELSE LET got == Append(SelectSeq(a.values, IsValue), p.value)
             done == \A k \in DOMAIN ps : ps[k].state = "fulfilled"
         IN  [a EXCEPT !.values = IF done THEN got
                                  ELSE got \o [k \in 1..(Len(ps) - Len(got)) |-> Hole],
                       !.state = IF done THEN "fulfilled" ELSE "pending"]

\* Promise.all's reaction to its i-th promise settling as p, the promises
\* then being ps: the first rejection rejects it, a fulfilment fills slot i
\* and the last one fulfils it
AllReact(a, i, p, ps) ==
    IF a.state # "pending" THEN a
    ELSE IF p.state = "rejected"
    THEN [a EXCEPT !.state = "rejected", !.reason = p.reason]
    ELSE LET vs == [a.values EXCEPT ![i] = p.value]
         IN  [a EXCEPT !.values = vs,
                       !.state = IF \A k \in DOMAIN ps : ps[k].state = "fulfilled"
                                 THEN "fulfilled" ELSE "pending"]

\* what `return await Promise.all(...)` settles getPosts' promise with
Settle(a) ==
    IF a.state = "fulfilled"
    THEN [status |-> "fulfilled", value |-> a.values, reason |-> NoError]
    ELSE [status |-> "rejected", value |-> <<>>, reason |-> a.reason]

----------------------------------------------------------------------------
(* components/Layout: the code-highlighting theme *)

\* the <option> values of the select
Options == {"okaidia", "tomorrow", "coy", "funky"}

\* useState('okaidia')
InitialTheme == "okaidia"

\* the meta prop a page may pass: nothing, or a title of its own
PageMetas == {[k \in {} |-> ""], [k \in {"title"} |-> "Post"]}

\* { title: 'Alex Barlow', description: ..., ...pageMeta }
MetaOf(pm) ==
    LET defaults == [title |-> "Alex Barlow",
                     description |-> "I'm Alex Barlow, a programmer based in UK."]
    IN  [k \in DOMAIN defaults \cup DOMAIN pm |->
            IF k \in DOMAIN pm THEN pm[k] ELSE defaults[k]]

\* `https://unpkg.com/prismjs@0.0.1/themes/prism-${theme}.css`
Href(th) == "https://unpkg.com/prismjs@0.0.1/themes/prism-" \o th \o ".css"

\* a render that links the stylesheet of the initial theme, whatever theme is
RenderFixedStylesheet(th, pm) ==
    [title |-> MetaOf(pm).title, stylesheet |-> Href(InitialTheme), select |-> th]

\* one render of Layout: the document title, the stylesheet link and the
\* value of the controlled select
Render(th, pm) ==
    [title |-> MetaOf(pm).title, stylesheet |-> Href(th), select |-> th]

\* the Layout variables of a behaviour in which no Layout is mounted
LayoutIdle ==
    /\ theme = InitialTheme
    /\ pageMeta = [k \in {} |-> ""]
    /\ rendered = Render(InitialTheme, [k \in {} |-> ""])
    /\ events = <<>>

----------------------------------------------------------------------------
(* getStaticProps and getPosts *)

Init ==
    /\ store \in Stores
    /\ pc = "idle"
    /\ dirFiles = <<>>
    /\ promises = <<>>
    /\ all = NoPromise
    /\ outcome = NoOutcome
    /\ props = NoProps
    /\ results = <<>>
    /\ fname = <<>>
    /\ slugOut = <<>>
    /\ slugPc = "input"
    /\ LayoutIdle

\* getStaticProps calls getPosts, which runs to its await: readdirSync,
\* map, Promise.all.  A throw of readdirSync rejects getPosts' promise.
GetPostsCall ==
    /\ pc = "idle"
    /\ Len(results) < MaxCalls
    /\ IF store.status # "ok"
       THEN /\ dirFiles' = <<>>
            /\ promises' = <<>>
            /\ all' = NoPromise
            /\ outcome' = [status |-> "rejected", value |-> <<>>,
                           reason |-> [error |-> store.status, file |-> <<>>]]
            /\ pc' = "returned"
       ELSE /\ dirFiles' = ReaddirSync(store)
            /\ promises' = MapAsync(dirFiles')
            /\ all' = PromiseAll(promises')
            /\ outcome' = [status |-> "pending", value |-> <<>>,
                           reason |-> NoError]
            /\ pc' = "awaiting"
    /\ UNCHANGED <<store, props, results, slugVars, layoutVars>>

\* the import of the i-th callback settles; the callback finishes and
\* Promise.all reacts (microtasks, run before any other import settles)
ImportSettle(i) ==
    /\ i \in DOMAIN promises
    /\ promises[i].state = "pending"
    /\ LET p == Callback(promises[i], dirFiles[i], Import(store, promises[i].path))
           ps == [promises EXCEPT ![i] = p]
       IN  /\ promises' = ps
           /\ all' = AllReact(all, i, p, ps)
    /\ UNCHANGED <<store, pc, dirFiles, outcome, props, results, slugVars, layoutVars>>

\* getPosts leaving an index file behind in the content directory
GetPostsReturnWritesIndex ==
    /\ pc = "awaiting"
    /\ all.state # "pending"
    /\ outcome' = Settle(all)
    /\ pc' = "returned"
    /\ store' = [store EXCEPT !.entries =
                    Append(@, [name |-> <<"x">>, type |-> "file",
                               module |-> [loads |-> FALSE, meta |-> Undefined]])]
    /\ UNCHANGED <<dirFiles, promises, all, props, results, slugVars, layoutVars>>

\* getPosts resumes from `await Promise.all(...)` and returns or throws
GetPostsReturn ==
    /\ pc = "awaiting"
    /\ all.state # "pending"
    /\ outcome' = Settle(all)
    /\ pc' = "returned"
    /\ UNCHANGED <<store, dirFiles, promises, all, props, results, slugVars, layoutVars>>

\* getStaticProps resumes from `await getPosts()`: it returns
\* {props: {posts}}, or the rejection propagates and the build fails
GetStaticPropsReturn ==
    /\ pc = "returned"
    /\ props' = IF outcome.status = "fulfilled"
                THEN [status |-> "ok", posts |-> outcome.value]
                ELSE [status |-> "error", posts |-> <<>>]
    /\ results' = Append(results, outcome)
    /\ pc' = "idle"
    /\ UNCHANGED <<store, dirFiles, promises, all, outcome, slugVars, layoutVars>>

Next ==
    \/ GetPostsCall
    \/ \E i \in DOMAIN promises : ImportSettle(i)
    \/ GetPostsReturn
    \/ GetStaticPropsReturn

Spec == Init /\ [][Next]_vars

----------------------------------------------------------------------------
(* Properties of getPosts *)

Settled == outcome.status \in {"fulfilled", "rejected"}

\* every entry of the directory is a valid Document: a regular file whose
\* module loads and exports meta
AllValid ==
    /\ store.status = "ok"
    /\ \A i \in DOMAIN store.entries :
          /\ store.entries[i].type = "file"
          /\ store.entries[i].module.loads
          /\ store.entries[i].module.meta \in Metas

\* C1: a directory of N valid Documents gives exactly N Index Entries, and
\* whenever getPosts returns, it returns one entry per enumerated entry
C1_OneEntryPerDocument ==
    /\ (Settled /\ AllValid) =>
          /\ outcome.status = "fulfilled"
          /\ Len(outcome.value) = Len(store.entries)
    /\ outcome.status = "fulfilled" =>
          /\ Len(outcome.value) = Len(dirFiles)
          /\ Len(dirFiles) = Len(store.entries)

C1_Witness ==
    /\ AllValid
    /\ Len(store.entries) >= 2
    /\ outcome.status = "fulfilled"
    /\ \E i \in DOMAIN store.entries : ~EndsWith(store.entries[i].name, Ext)

\* C4: if an enumerated Document has no metadata block, getPosts fails with
\* MissingMetadata naming that file, and it never returns an entry whose
\* metadata is absent
C4_MissingMetadataAborts ==
    /\ \A i \in DOMAIN outcome.value : outcome.value[i].meta # Undefined
    /\ \A i \in DOMAIN store.entries :
          (/\ Settled
           /\ \A k \in DOMAIN store.entries : store.entries[k].module.loads
           /\ store.entries[i].module.meta = Undefined)
          => /\ outcome.status = "rejected"
             /\ outcome.reason.error = "MissingMetadata"
             /\ \E k \in DOMAIN store.entries :
                   /\ store.entries[k].module.meta = Undefined
                   /\ outcome.reason.file = store.entries[k].name

\* C5: no partial success: when the enumeration fails or the load of any
\* Document fails, getPosts fails and yields no entries, and getStaticProps
\* yields no props; a result is returned only when every Document loaded
C5_NoPartialSuccess ==
    /\ (/\ Settled
        /\ \/ store.status # "ok"
           \/ \E i \in DOMAIN store.entries : ~store.entries[i].module.loads)
       => /\ outcome.status = "rejected"
          /\ outcome.value = <<>>
          /\ props.status # "ok"
    /\ outcome.status = "fulfilled" =>
          /\ store.status = "ok"
          /\ \A i \in DOMAIN promises : promises[i].state = "fulfilled"
          /\ \A i \in DOMAIN store.entries : store.entries[i].module.loads

C5_Witness ==
    /\ outcome.status = "rejected"
    /\ props.status = "error"
    /\ \E i \in DOMAIN promises : promises[i].state = "fulfilled"

\* C6: two invocations of getPosts against the unchanged directory give
\* equal results, same elements in the same order, whatever the order in
\* which the loads of each invocation completed
C6_Idempotent ==
    \A i, j \in DOMAIN results :
        /\ results[i].status = results[j].status
        /\ results[i].value = results[j].value

C6_Witness ==
    /\ Len(results) >= 2
    /\ results[1].status = "fulfilled"
    /\ Len(results[1].value) >= 2
    /\ results[1].value[1] # results[1].value[2]

\* C7: the i-th entry returned pairs the metadata of the i-th enumerated
\* Document with the slug of that Document's filename, in enumeration
\* order; a.mdx with metadata M gives {meta: M, slug: "a"}
C7_EntryPairsOwnMetaAndSlug ==
    outcome.status = "fulfilled" =>
        /\ DOMAIN outcome.value = DOMAIN store.entries
        /\ \A i \in DOMAIN store.entries :
              /\ outcome.value[i].meta = store.entries[i].module.meta
              /\ outcome.value[i].slug = Slug(store.entries[i].name)
              /\ store.entries[i].name = <<"a", ".", "m", "d", "x">>
                    => outcome.value[i].slug = <<"a">>

C7_Witness ==
    /\ outcome.status = "fulfilled"
    /\ Len(outcome.value) >= 2
    /\ outcome.value[1].meta \in Metas
    /\ outcome.value[2].meta \in Metas
    /\ outcome.value[1].meta # outcome.value[2].meta
    /\ outcome.value[1].slug = <<"a">>

\* C8: an empty content directory gives the empty sequence, not a failure
C8_EmptyDirectory ==
    (store.status = "ok" /\ store.entries = <<>>) =>
        /\ outcome.status # "rejected"
        /\ outcome.value = <<>>
        /\ pc = "awaiting" => (all.state = "fulfilled" /\ all.values = <<>>)
        /\ props.status # "error"
        /\ Len(results) > 0 => props = [status |-> "ok", posts |-> <<>>]

C8_Witness ==
    /\ store.status = "ok"
    /\ store.entries = <<>>
    /\ outcome.status = "fulfilled"
    /\ props = [status |-> "ok", posts |-> <<>>]

\* C9: the enumeration is filtered to regular files: an entry that is not a
\* regular file is never loaded and never produces an Index Entry
C9_RegularFilesOnly ==
    /\ \A i \in DOMAIN dirFiles : dirFiles[i].type = "file"
    /\ \A i \in DOMAIN promises :
          \A k \in DOMAIN store.entries :
              store.entries[k].name = promises[i].path
                  => store.entries[k].type = "file"
    /\ outcome.status = "fulfilled" =>
          Len(outcome.value) =
              Cardinality({k \in DOMAIN store.entries :
                              store.entries[k].type = "file"})

IndexKeys(posts) == [i \in DOMAIN posts |-> posts[i].slug]

\* C11: the filenames of a directory being pairwise distinct, no two Index
\* Entries returned by getPosts carry the same slug, so the listing page's
\* keys and routes are pairwise distinct
C11_SlugsUnique ==
    /\ outcome.status = "fulfilled" =>
          \A i, j \in DOMAIN outcome.value :
              i # j => outcome.value[i].slug # outcome.value[j].slug
    /\ props.status = "ok" =>
          \A i, j \in DOMAIN props.posts :
              i # j => IndexKeys(props.posts)[i] # IndexKeys(props.posts)[j]

----------------------------------------------------------------------------
(* The slug derivation on its own *)

SlugInit ==
    /\ fname \in Names(MaxNameLen)
    /\ slugOut = <<>>
    /\ slugPc = "input"
    /\ store = [status |-> "ok", entries |-> <<>>]
    /\ pc = "idle"
    /\ dirFiles = <<>>
    /\ promises = <<>>
    /\ all = NoPromise
    /\ outcome = NoOutcome
    /\ props = NoProps
    /\ results = <<>>
    /\ LayoutIdle

DeriveSlug ==
    /\ slugPc = "input"
    /\ slugOut' = Slug(fname)
    /\ slugPc' = "derived"
    /\ UNCHANGED <<fname, getPostsVars, layoutVars>>

SlugNext == DeriveSlug

SlugSpec == SlugInit /\ [][SlugNext]_vars

\* C2: for a filename ending in .mdx the slug is the filename with that
\* extension removed, and slug + ".mdx" is the filename again
C2_SlugStripsExtension ==
    (slugPc = "derived" /\ EndsWith(fname, Ext)) =>
        /\ slugOut = SubSeq(fname, 1, Len(fname) - Len(Ext))
        /\ slugOut \o Ext = fname

C2_Witness ==
    /\ slugPc = "derived"
    /\ EndsWith(fname, Ext)
    /\ Len(fname) > Len(Ext)
    /\ slugOut # fname

\* C3: a filename that does not end in ".mdx" is returned unchanged
C3_NoSuffixPassesThrough ==
    (slugPc = "derived" /\ ~EndsWith(fname, Ext)) => slugOut = fname

----------------------------------------------------------------------------
(* The Layout component on its own *)

\* the component after its first render
LayoutInit ==
    /\ theme = InitialTheme
    /\ pageMeta \in PageMetas
    /\ rendered = Render(InitialTheme, pageMeta)
    /\ events = <<>>
    /\ store = [status |-> "ok", entries |-> <<>>]
    /\ pc = "idle"
    /\ dirFiles = <<>>
    /\ promises = <<>>
    /\ all = NoPromise
    /\ outcome = NoOutcome
    /\ props = NoProps
    /\ results = <<>>
    /\ fname = <<>>
    /\ slugOut = <<>>
    /\ slugPc = "input"

\* onChange={(e) => setTheme(e.target.value)}: the user picks option v; the
\* state is set and the component renders again
SelectChange(v) ==
    /\ Len(events) < MaxEvents
    /\ theme' = v
    /\ rendered' = Render(v, pageMeta)
    /\ events' = Append(events, [type |-> "change", value |-> v])
    /\ UNCHANGED <<pageMeta, getPostsVars, slugVars>>

\* a re-render that starts the state over from its initial value
PropsChangeResetsState(pm) ==
    /\ Len(events) < MaxEvents
    /\ pageMeta' = pm
    /\ theme' = InitialTheme
    /\ rendered' = Render(InitialTheme, pm)
    /\ events' = Append(events, [type |-> "props", value |-> ""])
    /\ UNCHANGED <<getPostsVars, slugVars>>

\* the parent renders Layout again with other children or meta: useState
\* keeps the state of the mounted component
PropsChange(pm) ==
    /\ Len(events) < MaxEvents
    /\ pageMeta' = pm
    /\ rendered' = Render(theme, pm)
    /\ events' = Append(events, [type |-> "props", value |-> ""])
    /\ UNCHANGED <<theme, getPostsVars, slugVars>>

LayoutNext ==
    \/ \E v \in Options : SelectChange(v)
    \/ \E pm \in PageMetas : PropsChange(pm)

LayoutSpec == LayoutInit /\ [][LayoutNext]_vars

\* the stylesheets the head preloads, by theme
PreloadedStylesheet(th) ==
    CASE th = "tomorrow" -> "https://unpkg.com/prismjs@0.0.1/themes/prism-tomorrow.css"
      [] th = "coy"      -> "https://unpkg.com/prismjs@0.0.1/themes/prism-coy.css"
      [] th = "okaidia"  -> "https://unpkg.com/prismjs@0.0.1/themes/prism-okaidia.css"
      [] th = "funky"    -> "https://unpkg.com/prismjs@0.0.1/themes/prism-funky.css"
      [] OTHER           -> "none"

\* the option of the last change event among the first n events, the initial
\* theme when there is none
RECURSIVE LastSelected(_, _)
LastSelected(es, n) ==
    IF n = 0 THEN "okaidia"
    ELSE IF es[n].type = "change" THEN es[n].value
    ELSE LastSelected(es, n - 1)

\* C12: the theme starts as okaidia, is always one of the four options and
\* equals the last option selected; the stylesheet linked (and the select's
\* value) is always that of the current theme; no other event changes it
C12_ThemeIsLastSelection ==
    /\ theme \in {"okaidia", "tomorrow", "coy", "funky"}
    /\ theme = LastSelected(events, Len(events))
    /\ rendered.stylesheet = PreloadedStylesheet(theme)
    /\ rendered.select = theme

C12_Witness ==
    /\ Len(events) >= 3
    /\ events[1].type = "change"
    /\ events[2].type = "change"
    /\ events[2].value = "funky"
    /\ events[1].value # events[2].value
    /\ events[3].type = "props"
    /\ theme = "funky"

====
